---- MODULE Spec2Model ----
(***************************************************************************)
(* Card state and generation orchestration of the Christmas card studio   *)
(* (src/index.tsx, component CardGenerator and ControlsSection).          *)
(*                                                                         *)
(* The React state `card` is modelled by two variables:                    *)
(*   store  the state value React holds: every queued setCard update      *)
(*          applied in the order it was enqueued (what `prev` is in        *)
(*          setCard(prev => ...));                                         *)
(*   card   the value of the last committed render, which is what the     *)
(*          closures of the handlers and of ControlsSection read as        *)
(*          `card`.                                                        *)
(* An update enqueued inside a click/change handler is rendered before    *)
(* the next event; an update enqueued by the continuation of an await is  *)
(* rendered by a later scheduler task (action Render).                     *)
(***************************************************************************)
EXTENDS Integers, Sequences, FiniteSets, TLC

VARIABLES store, card, isMobileMenuOpen, textTasks, imageTasks,
          unhandled, alerts, ops,
          cardRef, isDownloading, exportPc, exportRecipient,
          captures, downloads, exportAlerts, noops,
          pureIn, pureOut

\* the state of downloadPNG: the ref of the card element, the busy flag, the
\* position of the invocation in flight and the recipient its closure read;
\* toPng calls, downloads triggered, error alerts and no-op returns so far
exportVars == <<cardRef, isDownloading, exportPc, exportRecipient,
                captures, downloads, exportAlerts, noops>>

\* argument and result of a service or helper function applied on its own
pureVars == <<pureIn, pureOut>>

vars == <<store, card, isMobileMenuOpen, textTasks, imageTasks,
          unhandled, alerts, ops, exportVars, pureVars>>

---------------------------------------------------------------------------
(* Bounds of the model *)

\* longest recipient / sender a user types
MaxNameLen == 1
\* number of user events (edits, clicks) in one session
MaxOps == 4
\* most parts in one image response
MaxParts == 2

\* longest recipient a file name is derived from
MaxRecipientLen == 3

---------------------------------------------------------------------------
(* Values *)

\* characters of a typed name: a letter and a white-space character
Alphabet == {"J", " "}

Names == UNION {[1..n -> Alphabet] : n \in 0..MaxNameLen}

CardTone == {"Heartfelt", "Funny", "Professional", "Poetic", "Short & Sweet"}

FrameStyle == {"Classic", "Candy Cane", "Winter Frost"}

EmptyResultFallback ==
    "May your holiday be filled with magic and your new year with dreams coming true."

FailureFallback ==
    "Wishing you a season filled with light and laughter. Merry Christmas!"

INITIAL_CARD ==
    [recipient |-> <<>>,
     sender |-> <<>>,
     tone |-> "Heartfelt",
     frameStyle |-> "Classic",
     message |-> "Enter names below to create your magical Christmas wish...",
     imageUrl |-> "https://images.unsplash.com/photo-1543589077-47d816067f70?auto=format&fit=crop&q=80&w=1000",
     isGeneratingMessage |-> FALSE,
     isGeneratingImage |-> FALSE]

\* the interface CardData
CardData ==
    [recipient : Names, sender : Names, tone : CardTone, frameStyle : FrameStyle,
     message : STRING, imageUrl : STRING,
     isGeneratingMessage : BOOLEAN, isGeneratingImage : BOOLEAN]

---------------------------------------------------------------------------
(* The external text service: outcomes of ai.models.generateContent *)

\* response.text is a string or undefined; the call may also throw
TextOutcomes ==
    {[kind |-> "ok", hasText |-> TRUE, text |-> "Joy to you"],
     [kind |-> "ok", hasText |-> TRUE, text |-> ""],
     [kind |-> "ok", hasText |-> FALSE, text |-> ""],
     [kind |-> "throw", hasText |-> FALSE, text |-> ""]}

\* `response.text ?? <fallback>` in place of `||`: an empty string is kept
TextTruthy_Nullish(o) == o.hasText

\* JavaScript truthiness of response.text
TextTruthy(o) == o.hasText /\ o.text # ""

\* the catch block returning the fallback of the empty result
generateWishAI_SwappedFallbacks(o) ==
    IF o.kind = "throw" THEN EmptyResultFallback
    ELSE IF TextTruthy(o) THEN o.text
    ELSE FailureFallback

\* generateWishAI, from the await on: `response.text || <fallback>` and the catch
generateWishAI(o) ==
    IF o.kind = "throw" THEN FailureFallback
    ELSE IF TextTruthy(o) THEN o.text
    ELSE EmptyResultFallback

---------------------------------------------------------------------------
(* The external image service *)

NoInline == [hasInline |-> FALSE, mimeType |-> "", data |-> ""]

Parts == {NoInline,
          [hasInline |-> TRUE, mimeType |-> "image/png", data |-> "AAAA"],
          [hasInline |-> TRUE, mimeType |-> "image/jpeg", data |-> "BBBB"]}

\* response.candidates?.[0]?.content?.parts || []  (absent candidates give <<>>)
PartLists == UNION {[1..n -> Parts] : n \in 0..MaxParts}

ImageOutcomes ==
    {[kind |-> "throw", parts |-> <<>>]} \cup
    {[kind |-> "ok", parts |-> ps] : ps \in PartLists}

\* the template literal of the return statement
DataUri(part) == "data:" \o part.mimeType \o ";base64," \o part.data

\* a loop that does not return at the first inline part: the last one decides
LastInline(ps) ==
    IF \A k \in 1..Len(ps) : ~ps[k].hasInline THEN [found |-> FALSE, url |-> ""]
    ELSE LET k == CHOOSE j \in 1..Len(ps) :
                      ps[j].hasInline /\ \A m \in (j + 1)..Len(ps) : ~ps[m].hasInline
         IN [found |-> TRUE, url |-> DataUri(ps[k])]

\* the for loop over the parts: the first part with inlineData decides
RECURSIVE FirstInline(_)
FirstInline(ps) ==
    IF ps = <<>> THEN [found |-> FALSE, url |-> ""]
    ELSE IF Head(ps).hasInline THEN [found |-> TRUE, url |-> DataUri(Head(ps))]
    ELSE FirstInline(Tail(ps))

\* generateCardImageAI, from the await on: a data URI, or null
generateCardImageAI(o) ==
    IF o.kind = "throw" THEN [found |-> FALSE, url |-> ""]
    ELSE FirstInline(o.parts)

\* the style the prompt asks for
PromptStyle(tone) ==
    IF tone = "Funny" THEN "Whimsical high-detail Pixar style"
    ELSE "Elegant painterly aesthetic"

---------------------------------------------------------------------------
(* Initial state *)

Init ==
    /\ store = INITIAL_CARD
    /\ card = INITIAL_CARD
    /\ isMobileMenuOpen = FALSE
    /\ textTasks = <<>>
    /\ imageTasks = <<>>
    /\ unhandled = {}
    /\ alerts = 0
    /\ ops = 0
    /\ cardRef = "null"
    /\ isDownloading = FALSE
    /\ exportPc = "idle"
    /\ exportRecipient = <<>>
    /\ captures = 0
    /\ downloads = <<>>
    /\ exportAlerts = 0
    /\ noops = 0
    /\ pureIn = [kind |-> "none"]
    /\ pureOut = [done |-> FALSE]

TypeOK ==
    /\ store \in CardData
    /\ card \in CardData
    /\ isMobileMenuOpen \in BOOLEAN
    /\ \A i \in 1..Len(textTasks) :
          textTasks[i] \in [recipient : Names, sender : Names, tone : CardTone]
    /\ \A i \in 1..Len(imageTasks) :
          imageTasks[i] \in [tone : CardTone, style : STRING, urlAtCall : STRING]
    /\ unhandled \subseteq {"text", "image"}
    /\ alerts \in 0..MaxOps
    /\ ops \in 0..MaxOps

\* one user event
UserEvent == ops < MaxOps /\ ops' = ops + 1

RemoveAt(s, i) == SubSeq(s, 1, i - 1) \o SubSeq(s, i + 1, Len(s))

---------------------------------------------------------------------------
(* ControlsSection: the four inputs.  Each handler replaces the state by  *)
(* the rendered `card` with one field changed.                            *)

EditRecipient(v) ==
    /\ UserEvent
    /\ v # card.recipient
    /\ store' = [card EXCEPT !.recipient = v]
    /\ card' = store'
    /\ UNCHANGED <<isMobileMenuOpen, textTasks, imageTasks, unhandled, alerts>>
    /\ UNCHANGED <<exportVars, pureVars>>

EditSender(v) ==
    /\ UserEvent
    /\ v # card.sender
    /\ store' = [card EXCEPT !.sender = v]
    /\ card' = store'
    /\ UNCHANGED <<isMobileMenuOpen, textTasks, imageTasks, unhandled, alerts>>
    /\ UNCHANGED <<exportVars, pureVars>>

EditTone(t) ==
    /\ UserEvent
    /\ store' = [card EXCEPT !.tone = t]
    /\ card' = store'
    /\ UNCHANGED <<isMobileMenuOpen, textTasks, imageTasks, unhandled, alerts>>
    /\ UNCHANGED <<exportVars, pureVars>>

EditFrameStyle(fs) ==
    /\ UserEvent
    /\ store' = [card EXCEPT !.frameStyle = fs]
    /\ card' = store'
    /\ UNCHANGED <<isMobileMenuOpen, textTasks, imageTasks, unhandled, alerts>>
    /\ UNCHANGED <<exportVars, pureVars>>

---------------------------------------------------------------------------
(* The functional updates  setCard(prev => ...)  of the two handlers *)

TextStarted(prev) == [prev EXCEPT !.isGeneratingMessage = TRUE]

\* a settlement that resets both busy flags
TextSettled_ClearsBothFlags(prev, wish) ==
    [prev EXCEPT !.message = wish, !.isGeneratingMessage = FALSE,
                 !.isGeneratingImage = FALSE]

TextSettled(prev, wish) ==
    [prev EXCEPT !.message = wish, !.isGeneratingMessage = FALSE]

ImageStarted(prev) == [prev EXCEPT !.isGeneratingImage = TRUE]

\* an else branch that swaps the stock image back in
ImageSettled_DefaultOnNull(prev, img) ==
    IF img.found /\ img.url # ""
    THEN [prev EXCEPT !.imageUrl = img.url, !.isGeneratingImage = FALSE]
    ELSE [prev EXCEPT !.imageUrl = INITIAL_CARD.imageUrl, !.isGeneratingImage = FALSE]

\* `if (img) { ...imageUrl: img... } else { ... }`
ImageSettled(prev, img) ==
    IF img.found /\ img.url # ""
    THEN [prev EXCEPT !.imageUrl = img.url, !.isGeneratingImage = FALSE]
    ELSE [prev EXCEPT !.isGeneratingImage = FALSE]

\* `!card.recipient || !card.sender`: a string is falsy only when it is empty
NamesMissing(c) == c.recipient = <<>> \/ c.sender = <<>>

\* the buttons of ControlsSection are disabled while the rendered flag is set
TextButtonDisabled == card.isGeneratingMessage

ImageButtonDisabled == card.isGeneratingImage

\* getAI(): `new GoogleGenAI({ apiKey: process.env.API_KEY || "" })` returns a
\* client or throws; it is called before the try block of the service function
GetAIOutcomes == {"client", "throw"}

---------------------------------------------------------------------------
(* handleGenerateText *)

\* the validation branch: alert and return
HandleGenerateTextInvalid ==
    /\ UserEvent
    /\ ~TextButtonDisabled
    /\ NamesMissing(card)
    /\ alerts' = alerts + 1
    /\ UNCHANGED <<store, card, isMobileMenuOpen, textTasks, imageTasks, unhandled>>
    /\ UNCHANGED <<exportVars, pureVars>>

\* valid names: the flag is set, generateWishAI is called with the rendered
\* values and runs up to its await; when getAI throws the promise of
\* generateWishAI is rejected and the handler ends with that rejection
HandleGenerateText(ai) ==
    /\ UserEvent
    /\ ~TextButtonDisabled
    /\ ~NamesMissing(card)
    /\ store' = TextStarted(store)
    /\ card' = TextStarted(card)
    /\ IF ai = "client"
       THEN /\ textTasks' = Append(textTasks,
                   [recipient |-> card.recipient, sender |-> card.sender,
                    tone |-> card.tone])
            /\ UNCHANGED unhandled
       ELSE /\ unhandled' = unhandled \cup {"text"}
            /\ UNCHANGED textTasks
    /\ UNCHANGED <<isMobileMenuOpen, imageTasks, alerts>>
    /\ UNCHANGED <<exportVars, pureVars>>

\* a settlement that drops the wish of a request whose card was edited since
TextSettle_IgnoresStale(i, o, narrow) ==
    /\ i \in 1..Len(textTasks)
    /\ store' = IF /\ store.recipient = textTasks[i].recipient
                   /\ store.sender = textTasks[i].sender
                   /\ store.tone = textTasks[i].tone
                THEN TextSettled(store, generateWishAI(o))
                ELSE [store EXCEPT !.isGeneratingMessage = FALSE]
    /\ textTasks' = RemoveAt(textTasks, i)
    /\ isMobileMenuOpen' = IF narrow THEN FALSE ELSE isMobileMenuOpen
    /\ UNCHANGED <<card, imageTasks, unhandled, alerts, ops>>
    /\ UNCHANGED <<exportVars, pureVars>>

\* a settlement that keeps the wish of the request issued last only
TextSettle_LatestIssuedWins(i, o, narrow) ==
    /\ i \in 1..Len(textTasks)
    /\ store' = IF i = Len(textTasks)
                THEN TextSettled(store, generateWishAI(o))
                ELSE [store EXCEPT !.isGeneratingMessage = FALSE]
    /\ textTasks' = RemoveAt(textTasks, i)
    /\ isMobileMenuOpen' = IF narrow THEN FALSE ELSE isMobileMenuOpen
    /\ UNCHANGED <<card, imageTasks, unhandled, alerts, ops>>
    /\ UNCHANGED <<exportVars, pureVars>>

\* the request settles: generateWishAI returns, the handler applies the wish
\* and closes the mobile menu on a narrow window
TextSettle(i, o, narrow) ==
    /\ i \in 1..Len(textTasks)
    /\ store' = TextSettled(store, generateWishAI(o))
    /\ textTasks' = RemoveAt(textTasks, i)
    /\ isMobileMenuOpen' = IF narrow THEN FALSE ELSE isMobileMenuOpen
    /\ UNCHANGED <<card, imageTasks, unhandled, alerts, ops>>
    /\ UNCHANGED <<exportVars, pureVars>>

---------------------------------------------------------------------------
(* handleGenerateImage *)

HandleGenerateImage(ai) ==
    /\ UserEvent
    /\ ~ImageButtonDisabled
    /\ store' = ImageStarted(store)
    /\ card' = ImageStarted(card)
    /\ IF ai = "client"
       THEN /\ imageTasks' = Append(imageTasks,
                   [tone |-> card.tone, style |-> PromptStyle(card.tone),
                    urlAtCall |-> store.imageUrl])
            /\ UNCHANGED unhandled
       ELSE /\ unhandled' = unhandled \cup {"image"}
            /\ UNCHANGED imageTasks
    /\ UNCHANGED <<isMobileMenuOpen, textTasks, alerts>>
    /\ UNCHANGED <<exportVars, pureVars>>

ImageSettle(i, o) ==
    /\ i \in 1..Len(imageTasks)
    /\ store' = ImageSettled(store, generateCardImageAI(o))
    /\ imageTasks' = RemoveAt(imageTasks, i)
    /\ UNCHANGED <<card, isMobileMenuOpen, textTasks, unhandled, alerts, ops>>
    /\ UNCHANGED <<exportVars, pureVars>>

---------------------------------------------------------------------------
(* React commits the updates enqueued outside an event handler *)

Render ==
    /\ card # store
    /\ card' = store
    /\ UNCHANGED <<store, isMobileMenuOpen, textTasks, imageTasks, unhandled,
                   alerts, ops>>
    /\ UNCHANGED <<exportVars, pureVars>>

(* The mobile menu button and the close button of the overlay *)

ToggleMobileMenu ==
    /\ UserEvent
    /\ isMobileMenuOpen' = ~isMobileMenuOpen
    /\ UNCHANGED <<store, card, textTasks, imageTasks, unhandled, alerts>>
    /\ UNCHANGED <<exportVars, pureVars>>

CloseMobileMenu ==
    /\ UserEvent
    /\ isMobileMenuOpen
    /\ isMobileMenuOpen' = FALSE
    /\ UNCHANGED <<store, card, textTasks, imageTasks, unhandled, alerts>>
    /\ UNCHANGED <<exportVars, pureVars>>

---------------------------------------------------------------------------

Edit ==
    \/ \E v \in Names : EditRecipient(v)
    \/ \E v \in Names : EditSender(v)
    \/ \E t \in CardTone : EditTone(t)
    \/ \E fs \in FrameStyle : EditFrameStyle(fs)

TextInvoke == \E ai \in GetAIOutcomes : HandleGenerateText(ai)

TextSettlement ==
    \E i \in 1..Len(textTasks), o \in TextOutcomes, narrow \in BOOLEAN :
        TextSettle(i, o, narrow)

ImageInvoke == \E ai \in GetAIOutcomes : HandleGenerateImage(ai)

ImageSettlement ==
    \E i \in 1..Len(imageTasks), o \in ImageOutcomes : ImageSettle(i, o)

Next ==
    \/ Edit
    \/ HandleGenerateTextInvalid
    \/ TextInvoke
    \/ TextSettlement
    \/ ImageInvoke
    \/ ImageSettlement
    \/ Render
    \/ ToggleMobileMenu
    \/ CloseMobileMenu

Spec == Init /\ [][Next]_vars

---------------------------------------------------------------------------
(* downloadPNG *)

\* characters the class \s of the regular expression matches
WhitespaceChars == {" ", "\t"}

RECURSIVE SkipWhitespace(_)
SkipWhitespace(s) ==
    IF s # <<>> /\ Head(s) \in WhitespaceChars THEN SkipWhitespace(Tail(s)) ELSE s

\* replace(/\s/g, '_'): every white-space character becomes an underscore
RECURSIVE ReplaceEachWhitespace(_)
ReplaceEachWhitespace(s) ==
    IF s = <<>> THEN <<>>
    ELSE IF Head(s) \in WhitespaceChars
         THEN <<"_">> \o ReplaceEachWhitespace(Tail(s))
         ELSE <<Head(s)>> \o ReplaceEachWhitespace(Tail(s))

\* replace(/\s+/g, '_'): scanning from the left, every match of \s+ (a run of
\* white space as long as possible) becomes one underscore
RECURSIVE ReplaceWhitespaceRuns(_)
ReplaceWhitespaceRuns(s) ==
    IF s = <<>> THEN <<>>
    ELSE IF Head(s) \in WhitespaceChars
         THEN <<"_">> \o ReplaceWhitespaceRuns(SkipWhitespace(s))
         ELSE <<Head(s)>> \o ReplaceWhitespaceRuns(Tail(s))

\* the string made of the characters of s
RECURSIVE Text(_)
Text(s) == IF s = <<>> THEN "" ELSE Head(s) \o Text(Tail(s))

\* `christmas-card-${(card.recipient || 'gift').replace(/\s+/g, '_')}.png`
FileName(recipient) ==
    "christmas-card-"
        \o Text(ReplaceWhitespaceRuns(
               IF recipient = <<>> THEN <<"g", "i", "f", "t">> ELSE recipient))
        \o ".png"

\* the PNG button is disabled while isDownloading
DownloadButtonDisabled == isDownloading

\* React attaches the card element to cardRef (useRef(null)) at the commit
AttachRef ==
    /\ cardRef = "null"
    /\ cardRef' = "div"
    /\ UNCHANGED <<isDownloading, exportPc, exportRecipient, captures, downloads,
                   exportAlerts, noops>>
    /\ UNCHANGED <<store, card, isMobileMenuOpen, textTasks, imageTasks,
                   unhandled, alerts, ops, pureVars>>

\* a handler without the null check: the export starts all the same
DownloadPNGNoRef_StartsAnyway ==
    /\ UserEvent
    /\ ~DownloadButtonDisabled
    /\ cardRef = "null"
    /\ noops' = noops + 1
    /\ isDownloading' = TRUE
    /\ exportPc' = "delay"
    /\ UNCHANGED <<cardRef, exportRecipient, captures, downloads, exportAlerts>>
    /\ UNCHANGED <<store, card, isMobileMenuOpen, textTasks, imageTasks,
                   unhandled, alerts, pureVars>>

\* `if (!cardRef.current) return;`
DownloadPNGNoRef ==
    /\ UserEvent
    /\ ~DownloadButtonDisabled
    /\ cardRef = "null"
    /\ noops' = noops + 1
    /\ UNCHANGED <<cardRef, isDownloading, exportPc, exportRecipient, captures,
                   downloads, exportAlerts>>
    /\ UNCHANGED <<store, card, isMobileMenuOpen, textTasks, imageTasks,
                   unhandled, alerts, pureVars>>

\* setIsDownloading(true), then the handler waits for the 200 ms timer; the
\* closure of this invocation holds the rendered card
DownloadPNG ==
    /\ UserEvent
    /\ ~DownloadButtonDisabled
    /\ cardRef # "null"
    /\ isDownloading' = TRUE
    /\ exportPc' = "delay"
    /\ exportRecipient' = card.recipient
    /\ UNCHANGED <<cardRef, captures, downloads, exportAlerts, noops>>
    /\ UNCHANGED <<store, card, isMobileMenuOpen, textTasks, imageTasks,
                   unhandled, alerts, pureVars>>

\* a handler that captures once and reuses the image afterwards
DelayElapsed_CachedCapture ==
    /\ exportPc = "delay"
    /\ exportPc' = "capture"
    /\ captures' = IF captures = 0 THEN 1 ELSE captures
    /\ UNCHANGED <<cardRef, isDownloading, exportRecipient, downloads,
                   exportAlerts, noops>>
    /\ UNCHANGED <<store, card, isMobileMenuOpen, textTasks, imageTasks,
                   unhandled, alerts, ops, pureVars>>

\* the timer fires: toPng(cardRef.current, ...) is called
DelayElapsed ==
    /\ exportPc = "delay"
    /\ exportPc' = "capture"
    /\ captures' = captures + 1
    /\ UNCHANGED <<cardRef, isDownloading, exportRecipient, downloads,
                   exportAlerts, noops>>
    /\ UNCHANGED <<store, card, isMobileMenuOpen, textTasks, imageTasks,
                   unhandled, alerts, ops, pureVars>>

\* setIsDownloading(false) at the end of the try block instead of in finally
CaptureSettle_NoFinally(captured) ==
    /\ exportPc = "capture"
    /\ IF captured
       THEN /\ downloads' = Append(downloads, FileName(exportRecipient))
            /\ isDownloading' = FALSE
            /\ UNCHANGED exportAlerts
       ELSE /\ exportAlerts' = exportAlerts + 1
            /\ UNCHANGED <<downloads, isDownloading>>
    /\ exportPc' = "idle"
    /\ exportRecipient' = <<>>
    /\ UNCHANGED <<cardRef, captures, noops>>
    /\ UNCHANGED <<store, card, isMobileMenuOpen, textTasks, imageTasks,
                   unhandled, alerts, ops, pureVars>>

\* toPng settles: on success the link is clicked, on failure the catch block
\* alerts; the finally block clears the flag
CaptureSettle(captured) ==
    /\ exportPc = "capture"
    /\ IF captured
       THEN /\ downloads' = Append(downloads, FileName(exportRecipient))
            /\ UNCHANGED exportAlerts
       ELSE /\ exportAlerts' = exportAlerts + 1
            /\ UNCHANGED downloads
    /\ isDownloading' = FALSE
    /\ exportPc' = "idle"
    /\ exportRecipient' = <<>>
    /\ UNCHANGED <<cardRef, captures, noops>>
    /\ UNCHANGED <<store, card, isMobileMenuOpen, textTasks, imageTasks,
                   unhandled, alerts, ops, pureVars>>

CaptureSettlement == \E captured \in BOOLEAN : CaptureSettle(captured)

\* the session with the PNG button in use
ExportNext ==
    \/ AttachRef
    \/ DownloadPNGNoRef
    \/ DownloadPNG
    \/ DelayElapsed
    \/ CaptureSettlement
    \/ Next

ExportSpec == Init /\ [][ExportNext]_vars

---------------------------------------------------------------------------
(* handleGenerateText called directly, whatever the state of its button *)

\* the whole handler, lines 114-123, up to its await: nothing in it reads
\* card.isGeneratingMessage
HandleGenerateTextCall(ai) ==
    /\ UserEvent
    /\ IF NamesMissing(card)
       THEN /\ alerts' = alerts + 1
            /\ UNCHANGED <<store, card, textTasks, unhandled>>
       ELSE /\ store' = TextStarted(store)
            /\ card' = TextStarted(card)
            /\ IF ai = "client"
               THEN /\ textTasks' = Append(textTasks,
                           [recipient |-> card.recipient, sender |-> card.sender,
                            tone |-> card.tone])
                    /\ UNCHANGED unhandled
               ELSE /\ unhandled' = unhandled \cup {"text"}
                    /\ UNCHANGED textTasks
            /\ UNCHANGED alerts
    /\ UNCHANGED <<isMobileMenuOpen, imageTasks>>
    /\ UNCHANGED <<exportVars, pureVars>>

TextCall == \E ai \in GetAIOutcomes : HandleGenerateTextCall(ai)

HandlerNext ==
    \/ Edit
    \/ TextCall
    \/ TextSettlement
    \/ Render

HandlerSpec == Init /\ [][HandlerNext]_vars

---------------------------------------------------------------------------
(* The service functions and the file name, applied on their own *)

\* services/gemini.ts, generateWish, from the await on
generateWish(o) ==
    IF o.kind = "throw"
    THEN "Wishing you a season filled with light and laughter. Merry Christmas!"
    ELSE IF TextTruthy(o) THEN o.text
    ELSE "May your days be merry and bright!"

\* characters of a recipient: a letter, a blank and a tab
FileAlphabet == {"J", " ", "\t"}

Recipients ==
    UNION {[1..n -> FileAlphabet] : n \in 0..MaxRecipientLen}
        \cup {<<"J", "o", " ", "A", "n", "n">>}

PureInputs ==
    {[kind |-> "fileName", recipient |-> r] : r \in Recipients} \cup
    {[kind |-> "wish", recipient |-> r, sender |-> sd, tone |-> t, outcome |-> o] :
        r \in Names, sd \in Names, t \in CardTone, o \in TextOutcomes}

sessionVars == <<store, card, isMobileMenuOpen, textTasks, imageTasks,
                 unhandled, alerts, ops, exportVars>>

PureInit ==
    /\ store = INITIAL_CARD
    /\ card = INITIAL_CARD
    /\ isMobileMenuOpen = FALSE
    /\ textTasks = <<>>
    /\ imageTasks = <<>>
    /\ unhandled = {}
    /\ alerts = 0
    /\ ops = 0
    /\ cardRef = "null"
    /\ isDownloading = FALSE
    /\ exportPc = "idle"
    /\ exportRecipient = <<>>
    /\ captures = 0
    /\ downloads = <<>>
    /\ exportAlerts = 0
    /\ noops = 0
    /\ pureIn \in PureInputs
    /\ pureOut = [done |-> FALSE]

\* the file name of line 147 for one recipient
ApplyFileName ==
    /\ pureIn.kind = "fileName"
    /\ ~pureOut.done
    /\ pureOut' = [done |-> TRUE, fileName |-> FileName(pureIn.recipient)]
    /\ UNCHANGED <<pureIn, sessionVars>>

\* both text service functions on the same arguments and the same outcome of
\* ai.models.generateContent
ApplyWish ==
    /\ pureIn.kind = "wish"
    /\ ~pureOut.done
    /\ pureOut' = [done |-> TRUE,
                   index |-> generateWishAI(pureIn.outcome),
                   service |-> generateWish(pureIn.outcome)]
    /\ UNCHANGED <<pureIn, sessionVars>>

PureNext == ApplyFileName \/ ApplyWish

PureSpec == PureInit /\ [][PureNext]_vars

---------------------------------------------------------------------------
(* Vocabulary of the properties *)

InputFields == {"recipient", "sender", "tone", "frameStyle"}

\* the state differs from prev in the fields fs at most
OnlyFieldsChanged(prev, new, fs) ==
    \A f \in DOMAIN prev : f \notin fs => new[f] = prev[f]

IsWhitespace(c) == c = " "

RECURSIVE TrimStart(_)
TrimStart(s) ==
    IF s = <<>> THEN s
    ELSE IF IsWhitespace(Head(s)) THEN TrimStart(Tail(s)) ELSE s

RECURSIVE TrimEnd(_)
TrimEnd(s) ==
    IF s = <<>> THEN s
    ELSE IF IsWhitespace(s[Len(s)]) THEN TrimEnd(SubSeq(s, 1, Len(s) - 1)) ELSE s

Trim(s) == TrimEnd(TrimStart(s))

BlankAfterTrim(c) == Trim(c.recipient) = <<>> \/ Trim(c.sender) = <<>>

\* an invocation of handleGenerateText, whichever branch it takes
TextInvocation == HandleGenerateTextInvalid \/ TextInvoke

\* the step ends an invocation of the handler: its request settles, or the
\* handler is left by the rejection of the service function
TextInvocationEnds ==
    \/ Len(textTasks') < Len(textTasks)
    \/ \E ai \in GetAIOutcomes : HandleGenerateText(ai) /\ textTasks' = textTasks

ImageInvocationEnds ==
    \/ Len(imageTasks') < Len(imageTasks)
    \/ \E ai \in GetAIOutcomes : HandleGenerateImage(ai) /\ imageTasks' = imageTasks

\* index of the first part carrying inline data
FirstInlineIndex(ps) ==
    CHOOSE k \in 1..Len(ps) :
        ps[k].hasInline /\ \A j \in 1..(k - 1) : ~ps[j].hasInline

HasInlinePart(ps) == \E k \in 1..Len(ps) : ps[k].hasInline

\* the recipient from position i on, with the white-space characters that
\* begin a run turned into an underscore and the others of the run dropped
RECURSIVE CollapsedFrom(_, _)
CollapsedFrom(r, i) ==
    IF i > Len(r) THEN ""
    ELSE (IF r[i] \notin WhitespaceChars THEN r[i]
          ELSE IF i = 1 \/ r[i - 1] \notin WhitespaceChars THEN "_"
          ELSE "") \o CollapsedFrom(r, i + 1)

ExpectedFileName(r) ==
    "christmas-card-" \o (IF Len(r) = 0 THEN "gift" ELSE CollapsedFrom(r, 1)) \o ".png"

---------------------------------------------------------------------------
(* Properties *)

\* C1: an invocation that has set its busy flag never ends with the flag still
\* set: when the invocation of either handler ends (by settlement of its
\* request or by a failure inside the service function), the flag it set is
\* false again.
C1_FlagClearedWhenInvocationEnds ==
    [][ /\ TextInvocationEnds => ~store'.isGeneratingMessage
        /\ ImageInvocationEnds => ~store'.isGeneratingImage ]_vars

\* C2: in every reachable state a busy flag is set only while a request of
\* its kind is outstanding.
C2_FlagOnlyWhileOutstanding ==
    /\ store.isGeneratingMessage => textTasks # <<>>
    /\ store.isGeneratingImage => imageTasks # <<>>

\* C3: a field edit changes one of the four input fields of the state and
\* leaves every other field at the value the state held before the edit.
C3_EditMergesOneField ==
    [][ Edit => \E f \in InputFields : OnlyFieldsChanged(store, store', {f}) ]_vars

\* C4: invoking text generation while recipient or sender is blank after
\* trimming issues no request, leaves isGeneratingMessage false and leaves
\* message unchanged.
C4_BlankNamesAbort ==
    [][ (TextInvocation /\ BlankAfterTrim(card)) =>
            /\ textTasks' = textTasks
            /\ ~store'.isGeneratingMessage
            /\ store'.message = store.message ]_vars

\* C5: when the request of a text generation throws, the settlement puts
\* exactly the failure fallback into message, clears the flag and the handler
\* ends without an unhandled rejection.
C5_ThrowGivesFailureFallback ==
    [][ Len(textTasks') < Len(textTasks) =>
        \A i \in 1..Len(textTasks), o \in TextOutcomes, narrow \in BOOLEAN :
            (o.kind = "throw" /\ TextSettle(i, o, narrow)) =>
                /\ store'.message =
                     "Wishing you a season filled with light and laughter. Merry Christmas!"
                /\ ~store'.isGeneratingMessage
                /\ unhandled' = unhandled ]_vars

C5_Witness ==
    /\ store.message = FailureFallback
    /\ ~store.isGeneratingMessage
    /\ textTasks = <<>>
    /\ "text" \notin unhandled

\* C6: when the request of a text generation succeeds, message at settlement
\* is the returned text if that is a non-empty string, and exactly the
\* empty-result fallback if the text is empty or absent.
C6_SuccessGivesTextOrEmptyFallback ==
    [][ Len(textTasks') < Len(textTasks) =>
        \A i \in 1..Len(textTasks), o \in TextOutcomes, narrow \in BOOLEAN :
            (o.kind = "ok" /\ TextSettle(i, o, narrow)) =>
                store'.message =
                    IF o.hasText /\ Len(o.text) > 0 THEN o.text
                    ELSE "May your holiday be filled with magic and your new year with dreams coming true." ]_vars

C6_Witness ==
    /\ store.message = EmptyResultFallback
    /\ ~store.isGeneratingMessage
    /\ textTasks = <<>>

\* C7: an invocation of text generation with recipient and sender non-blank
\* after trimming and no other text request in flight raises the flag from
\* false to true and has its request in flight; the flag stays set while the
\* request is in flight; the settlement lowers it to false with a non-empty
\* message.
C7_FlagUpAndDownOnce ==
    [][ /\ (TextInvoke /\ ~BlankAfterTrim(card) /\ textTasks = <<>>) =>
              /\ ~store.isGeneratingMessage
              /\ store'.isGeneratingMessage
              /\ Len(textTasks') = 1
        /\ (Len(textTasks) = 1 /\ textTasks' = textTasks) =>
              store'.isGeneratingMessage = store.isGeneratingMessage
        /\ (Len(textTasks) = 1 /\ textTasks' = <<>>) =>
              /\ store.isGeneratingMessage
              /\ ~store'.isGeneratingMessage
              /\ store'.message # "" ]_vars

\* C8: a text and an image generation in flight together settle
\* independently: either can settle while the other is outstanding, every
\* step of the text operation changes message and isGeneratingMessage at
\* most, every step of the image operation changes imageUrl and
\* isGeneratingImage at most.
C8_TextAndImageIndependent ==
    /\ []((textTasks # <<>> /\ imageTasks # <<>>) =>
              (ENABLED TextSettlement /\ ENABLED ImageSettlement))
    /\ [][ /\ (TextInvocation \/ TextSettlement) =>
                OnlyFieldsChanged(store, store', {"message", "isGeneratingMessage"})
           /\ (ImageInvoke \/ ImageSettlement) =>
                OnlyFieldsChanged(store, store', {"imageUrl", "isGeneratingImage"})
           /\ TextSettlement => ~store'.isGeneratingMessage
           /\ ImageSettlement => ~store'.isGeneratingImage ]_vars

C8_Witness ==
    /\ textTasks # <<>>
    /\ imageTasks # <<>>
    /\ store.isGeneratingMessage
    /\ store.isGeneratingImage

\* C9: when the image request throws or its response has no inline image
\* part, imageUrl after the settlement is the value it had when the handler
\* was invoked, and isGeneratingImage is false.
C9_NoImageKeepsUrl ==
    [][ Len(imageTasks') < Len(imageTasks) =>
        \A i \in 1..Len(imageTasks), o \in ImageOutcomes :
            ((o.kind = "throw" \/ ~HasInlinePart(o.parts)) /\ ImageSettle(i, o)) =>
                /\ store'.imageUrl = imageTasks[i].urlAtCall
                /\ store'.imageUrl = store.imageUrl
                /\ ~store'.isGeneratingImage ]_vars

C9_Witness ==
    /\ card.isGeneratingImage
    /\ ~store.isGeneratingImage
    /\ imageTasks = <<>>
    /\ "image" \notin unhandled
    /\ store.imageUrl = INITIAL_CARD.imageUrl

\* C10: when the image response has a part with inline data, the settlement
\* sets imageUrl to "data:<mimeType>;base64,<data>" of the first such part;
\* image/png with data AAAA gives "data:image/png;base64,AAAA".
C10_FirstInlinePartBecomesDataUri ==
    [][ Len(imageTasks') < Len(imageTasks) =>
        \A i \in 1..Len(imageTasks), o \in ImageOutcomes :
            (o.kind = "ok" /\ HasInlinePart(o.parts) /\ ImageSettle(i, o)) =>
                LET p == o.parts[FirstInlineIndex(o.parts)] IN
                /\ store'.imageUrl = "data:" \o p.mimeType \o ";base64," \o p.data
                /\ (p.mimeType = "image/png" /\ p.data = "AAAA") =>
                       store'.imageUrl = "data:image/png;base64,AAAA" ]_vars

C10_Witness ==
    /\ store.imageUrl = "data:image/png;base64,AAAA"
    /\ ~store.isGeneratingImage
    /\ imageTasks = <<>>

\* C11: message and imageUrl are never absent or empty, and each holds its
\* initial default or the value last produced by its generation operation:
\* a step that changes message is a settlement of a text generation or puts
\* the default back, a step that changes imageUrl is a settlement of an image
\* generation or puts the default back.
C11_DefaultOrLastProduced ==
    /\ [](store.message # "" /\ store.imageUrl # "")
    /\ [][ /\ store'.message # store.message =>
                (TextSettlement \/ store'.message = INITIAL_CARD.message)
           /\ store'.imageUrl # store.imageUrl =>
                (ImageSettlement \/ store'.imageUrl = INITIAL_CARD.imageUrl) ]_vars

\* C12: isDownloading is set exactly while an export is in progress; the
\* settlement of the capture clears it on success and on failure; a failed
\* capture raises one error alert and triggers no download, and afterwards
\* the PNG button and the inputs can be used again.
C12_ExportClearsFlagAndSurvivesFailure ==
    /\ [](isDownloading <=> exportPc # "idle")
    /\ []((exportAlerts > 0 /\ exportPc = "idle" /\ ops < MaxOps) =>
              (ENABLED DownloadPNG /\ ENABLED Edit))
    /\ [][ /\ exportPc = "capture" /\ exportPc' # "capture" =>
                ~isDownloading' /\ exportPc' = "idle"
           /\ exportAlerts' # exportAlerts =>
                /\ exportAlerts' = exportAlerts + 1
                /\ downloads' = downloads
                /\ ~isDownloading' ]_vars

C12_Witness ==
    /\ exportAlerts = 1
    /\ downloads = <<>>
    /\ ~isDownloading
    /\ exportPc = "idle"

\* C13: an export invoked while the ref of the card element is null does
\* nothing: no flag is set, no capture is started, no download is triggered
\* and no state of the component changes.
C13_NullRefIsNoOp ==
    /\ [](cardRef = "null" =>
              /\ ~isDownloading
              /\ exportPc = "idle"
              /\ captures = 0
              /\ downloads = <<>>
              /\ exportAlerts = 0)
    /\ [][ noops' # noops =>
              UNCHANGED <<store, card, isMobileMenuOpen, textTasks, imageTasks,
                          unhandled, alerts, cardRef, isDownloading, exportPc,
                          exportRecipient, captures, downloads, exportAlerts>> ]_vars

C13_Witness ==
    /\ noops > 0
    /\ cardRef = "null"
    /\ ~isDownloading
    /\ captures = 0

\* C18: within one export the flag is set first, the capture is started only
\* when the delay has elapsed (one toPng call per export), a download is
\* triggered only by a capture that succeeded (one per export) and the flag is
\* cleared only when the capture has settled; every export that got past the
\* delay has made its own capture.
C18_ExportStepOrder ==
    /\ [](captures = Len(downloads) + exportAlerts
                       + (IF exportPc = "capture" THEN 1 ELSE 0))
    /\ [][ /\ (~isDownloading /\ isDownloading') =>
                /\ exportPc = "idle" /\ exportPc' = "delay"
                /\ captures' = captures /\ downloads' = downloads
           /\ captures' # captures =>
                /\ exportPc = "delay" /\ exportPc' = "capture"
                /\ isDownloading /\ isDownloading'
                /\ captures' = captures + 1
                /\ downloads' = downloads
           /\ downloads' # downloads =>
                /\ exportPc = "capture" /\ isDownloading
                /\ Len(downloads') = Len(downloads) + 1
                /\ exportAlerts' = exportAlerts
                /\ captures' = captures
           /\ (isDownloading /\ ~isDownloading') =>
                /\ exportPc = "capture" /\ exportPc' = "idle"
                /\ (downloads' # downloads \/ exportAlerts' # exportAlerts) ]_vars

\* two exports in a row, nothing else done in the session
C18_Witness ==
    /\ ops = 2
    /\ captures = 2
    /\ Len(downloads) = 2
    /\ exportPc = "idle"
    /\ ~isDownloading
    /\ store = INITIAL_CARD

\* C15: there is no cancellation: an issued request carries the recipient,
\* sender and tone read at the invocation, nothing but its settlement takes
\* it out of flight, and its settlement always applies the result (message,
\* resp. imageUrl) and keeps the recipient, sender, tone and frameStyle the
\* user has set in the meantime.
C15_NoCancellation ==
    /\ [](textTasks # <<>> => ENABLED TextSettlement)
    /\ [](imageTasks # <<>> => ENABLED ImageSettlement)
    /\ [][ /\ Len(textTasks') > Len(textTasks) =>
                /\ textTasks' = Append(textTasks,
                       [recipient |-> card.recipient, sender |-> card.sender,
                        tone |-> card.tone])
                /\ \A f \in {"recipient", "sender", "tone"} : card[f] = store[f]
           /\ Len(textTasks') = Len(textTasks) => textTasks' = textTasks
           /\ Len(textTasks') < Len(textTasks) =>
                /\ \E i \in 1..Len(textTasks) : textTasks' = RemoveAt(textTasks, i)
                /\ \E o \in TextOutcomes :
                       store' = [store EXCEPT !.message = generateWishAI(o),
                                              !.isGeneratingMessage = FALSE]
                /\ \A f \in InputFields : store'[f] = store[f]
           /\ Len(imageTasks') > Len(imageTasks) =>
                /\ Len(imageTasks') = Len(imageTasks) + 1
                /\ imageTasks'[Len(imageTasks')].tone = card.tone
                /\ card.tone = store.tone
           /\ Len(imageTasks') = Len(imageTasks) => imageTasks' = imageTasks
           /\ Len(imageTasks') < Len(imageTasks) =>
                /\ \E i \in 1..Len(imageTasks) : imageTasks' = RemoveAt(imageTasks, i)
                /\ \E o \in ImageOutcomes :
                       LET img == generateCardImageAI(o) IN
                       store' = IF img.found /\ img.url # ""
                                THEN [store EXCEPT !.imageUrl = img.url,
                                                   !.isGeneratingImage = FALSE]
                                ELSE [store EXCEPT !.isGeneratingImage = FALSE]
                /\ \A f \in InputFields : store'[f] = store[f] ]_vars

\* a wish applied to a card whose recipient was emptied while the request
\* was in flight
C15_Witness ==
    /\ card.isGeneratingMessage
    /\ ~store.isGeneratingMessage
    /\ store.message = "Joy to you"
    /\ store.recipient = <<>>
    /\ textTasks = <<>>

\* C16: handleGenerateText has no mutual exclusion of its own: called with
\* valid names while a request is in flight it issues one more request; every
\* request in flight can settle next, whatever its place in the order of
\* issue, and each settlement writes its own result into the message, so the
\* message left at the end is that of the request that settled last.
C16_SecondCallRacesTheFirst ==
    /\ [](\A i \in 1..Len(textTasks) : \A o \in TextOutcomes :
              ENABLED TextSettle(i, o, FALSE))
    /\ [][ /\ (textTasks # <<>> /\ ~NamesMissing(card)
                 /\ HandleGenerateTextCall("client")) =>
                /\ Len(textTasks') = Len(textTasks) + 1
                /\ SubSeq(textTasks', 1, Len(textTasks)) = textTasks
           /\ Len(textTasks') < Len(textTasks) =>
                \A i \in 1..Len(textTasks), o \in TextOutcomes, narrow \in BOOLEAN :
                    TextSettle(i, o, narrow) =>
                        /\ store'.message = generateWishAI(o)
                        /\ textTasks' = RemoveAt(textTasks, i) ]_vars

\* two requests in flight at once
C16_Witness ==
    /\ Len(textTasks) = 2
    /\ store.isGeneratingMessage
    /\ card.isGeneratingMessage

\* C17: every invocation of text generation with valid names issues exactly
\* one text request; every invocation of image generation issues exactly one
\* image request and is open to a card with empty names; no other step, a
\* settlement with a failure or an empty result included, issues a request.
C17_OneRequestPerInvocation ==
    /\ []((NamesMissing(card) /\ ~ImageButtonDisabled /\ ops < MaxOps) =>
              ENABLED ImageInvoke)
    /\ [][ /\ TextInvoke => textTasks' = Append(textTasks,
                               [recipient |-> card.recipient,
                                sender |-> card.sender, tone |-> card.tone])
           /\ ImageInvoke => /\ Len(imageTasks') = Len(imageTasks) + 1
                             /\ SubSeq(imageTasks', 1, Len(imageTasks)) = imageTasks
           /\ ~TextInvoke => Len(textTasks') <= Len(textTasks)
           /\ ~ImageInvoke => Len(imageTasks') <= Len(imageTasks) ]_vars

\* C14: the export file name is "christmas-card-" + N + ".png" with N =
\* "gift" for an empty recipient and otherwise the recipient with every
\* maximal run of white space replaced by one underscore; "Jo Ann" gives
\* "christmas-card-Jo_Ann.png" and "" gives "christmas-card-gift.png".
C14_FileNameCollapsesWhitespace ==
    (pureIn.kind = "fileName" /\ pureOut.done) =>
        /\ pureOut.fileName = ExpectedFileName(pureIn.recipient)
        /\ pureIn.recipient = <<"J", "o", " ", "A", "n", "n">> =>
               pureOut.fileName = "christmas-card-Jo_Ann.png"
        /\ pureIn.recipient = <<>> => pureOut.fileName = "christmas-card-gift.png"

C14_Witness ==
    /\ pureIn.kind = "fileName"
    /\ pureIn.recipient = <<"J", "o", " ", "A", "n", "n">>
    /\ pureOut.done
    /\ pureOut.fileName = "christmas-card-Jo_Ann.png"

\* C19: generateWishAI of index.tsx and generateWish of services/gemini.ts
\* return the same string for every outcome of the external call: the text,
\* or the fixed fallback of that outcome.
C19_WishFunctionsAgree ==
    (pureIn.kind = "wish" /\ pureOut.done) =>
        /\ pureOut.index = pureOut.service
        /\ pureOut.index =
             IF pureIn.outcome.kind = "throw"
             THEN "Wishing you a season filled with light and laughter. Merry Christmas!"
             ELSE IF pureIn.outcome.hasText /\ pureIn.outcome.text # ""
             THEN pureIn.outcome.text
             ELSE "May your holiday be filled with magic and your new year with dreams coming true."

====
